---- MODULE Spec2Model ----
(***************************************************************************)
(* Room coordination of the game server: app/model.py (create_room,        *)
(* join_room and their helpers) and the /room/create handler of app/api.py.*)
(*                                                                         *)
(* Every operation of model.py runs inside `with engine.begin() as conn`:  *)
(* one database transaction, committed when the block is left normally and *)
(* rolled back when it is left by an exception.  The SQL is MySQL's        *)
(* (backquoted names, lastrowid) and the statements are plain SELECTs (no  *)
(* FOR UPDATE), UPDATEs and INSERTs with no isolation level requested:     *)
(* InnoDB's REPEATABLE READ.  A transaction reads from the snapshot taken  *)
(* by its first SELECT, an UPDATE takes an exclusive lock on the rows it   *)
(* matches and keeps it until the transaction ends, and the writes become  *)
(* visible to other transactions at commit.                                *)
(***************************************************************************)
EXTENDS Integers, Sequences, FiniteSets, Bags, TLC

(* ---------------------------- bounds ----------------------------------- *)
NumProcs == 2
MaxRooms == 1
MaxJoins == 3

Procs == 1..NumProcs
RoomIds == 1..MaxRooms
\* room ids the store may hold: those drawn during a run and one drawn before it
StoredRoomIds == 1..(MaxRooms + 1)

(* ------------------------ program constants ---------------------------- *)
\* Column defaults of the `room` table: INSERT INTO room (live_id) sets only
\* live_id and leaves joined_user_count and max_user_count to the store.
DefaultJoinedUserCount == 0
DefaultMaxUserCount == 4

\* class LiveDifficulty(IntEnum)
LiveDifficulty == {1, 2}

\* class JoinRoomResult(IntEnum), by member name
JoinRoomResult == {"Ok", "RoomFull", "Disbanded", "OtherError"}

\* class DBResponseError(IntEnum), by member name ("None": a row was returned)
DBResponseError == {"NoResultFound", "MultipleResultsFound", "OtherError"}

(* ------------------------------ inputs --------------------------------- *)
\* The `user` table.  Tokens are uuid4 strings; "tok-dup" is a token two
\* users share (create_user does not retry on a collision).
user ==
    { [id |-> 1,  token |-> "tok-1"],
      [id |-> 12, token |-> "tok-12"],
      [id |-> 13, token |-> "tok-dup"],
      [id |-> 14, token |-> "tok-dup"] }

\* Tokens callers present; "tok-none" belongs to no user.
Tokens == {"tok-1", "tok-12", "tok-dup", "tok-none"}
LiveIds == {10, 20}

(* ------------------- str / split / join on member_list ----------------- *)
\* A Python str is a sequence of one-character strings.
Digits == <<"0", "1", "2", "3", "4", "5", "6", "7", "8", "9">>

RECURSIVE Str(_)
\* str(user_id) for a non-negative int: its decimal digits
Str(n) == IF n < 10 THEN <<Digits[n + 1]>>
          ELSE Str(n \div 10) \o <<Digits[(n % 10) + 1]>>

RECURSIVE Join(_, _)
\* sep.join(parts)
Join(sep, parts) ==
    IF Len(parts) = 0 THEN <<>>
    ELSE IF Len(parts) = 1 THEN parts[1]
    ELSE parts[1] \o <<sep>> \o Join(sep, Tail(parts))

RECURSIVE SplitFrom(_, _, _)
\* the pieces of s between occurrences of sep, cur being the piece in progress
SplitFrom(s, sep, cur) ==
    IF Len(s) = 0 THEN <<cur>>
    ELSE IF Head(s) = sep THEN <<cur>> \o SplitFrom(Tail(s), sep, <<>>)
    ELSE SplitFrom(Tail(s), sep, Append(cur, Head(s)))

\* s.split(sep): never empty, "".split(",") is [""]
Split(s, sep) == SplitFrom(s, sep, <<>>)

(* ------------------------------ state ---------------------------------- *)
VARIABLES
    room,          \* committed rows of table `room`
    room_member,   \* committed rows of table `room_member`
    room_user,     \* committed rows of table `room_user` (a bag of rows)
    next_room_id,  \* AUTO_INCREMENT counter of room.room_id
    row_lock,      \* exclusive row locks: <<table, room_id, holder>>
    pc,            \* per worker: the statement its request executes next
    frame,         \* per worker: arguments and local variables of the running call
    tx,            \* per worker: the writes of its open transaction
    ret,           \* per worker: what its last finished call returned or raised
    overlap,       \* per worker: workers whose join_room on the same room ran
                   \*             concurrently with its latest join_room
    free_read,     \* per worker: free slots its latest join_room read
    joiner,        \* per worker: user id its latest join_room resolved
    ok_count,      \* per room: number of join_room calls that returned Ok
    ok_joiners,    \* per room: user ids whose join_room returned Ok
    started        \* number of concurrent join_room transactions begun

vars == <<room, room_member, room_user, next_room_id, row_lock, pc, frame, tx,
          ret, overlap, free_read, joiner, ok_count, ok_joiners, started>>

db == <<room, room_member, room_user>>
hist == <<overlap, free_read, joiner, ok_count, ok_joiners>>

NoUser == [id |-> 0]
NoRow == [err |-> "NoResultFound", joined_user_count |-> 0, max_user_count |-> 0]
ManyRows == [err |-> "MultipleResultsFound", joined_user_count |-> 0, max_user_count |-> 0]
NoMembers == [err |-> "NoResultFound", member_list |-> <<>>]
ManyMembers == [err |-> "MultipleResultsFound", member_list |-> <<>>]

NoFrame ==
    [fn |-> "none", room_id |-> 0, live_id |-> 0, select_difficulty |-> 0,
     user |-> NoUser, room |-> NoRow, room_members |-> NoMembers, lastrowid |-> 0]

NoRet == [kind |-> "none", value |-> 0, result |-> "none"]
Returned(v) == [kind |-> "return", value |-> v, result |-> "room_id"]
ReturnedResult(r) == [kind |-> "return", value |-> 0, result |-> r]
Raised(e) == [kind |-> "raise", value |-> 0, result |-> e]

(* --------------------------- pure helpers ------------------------------ *)
\* res.first() in place of res.one(): an ambiguous token resolves to some user
get_user_by_token_first(token) ==
    LET rows == {u \in user : u.token = token}
    IN  IF rows # {} THEN [id |-> (CHOOSE u \in rows : TRUE).id]
        ELSE NoUser

\* _get_user_by_token: res.one() on SELECT * FROM user WHERE token=:token
_get_user_by_token(token) ==
    LET rows == {u \in user : u.token = token}
    IN  IF Cardinality(rows) = 1 THEN [id |-> (CHOOSE u \in rows : TRUE).id]
        ELSE NoUser

\* get_room: res.one() on SELECT joined_user_count, max_user_count FROM room
get_room(rooms, room_id) ==
    LET rows == {r \in rooms : r.room_id = room_id}
    IN  IF Cardinality(rows) = 0 THEN NoRow
        ELSE IF Cardinality(rows) > 1 THEN ManyRows
        ELSE LET r == CHOOSE r \in rows : TRUE
             IN  [err |-> "None", joined_user_count |-> r.joined_user_count,
                  max_user_count |-> r.max_user_count]

\* res.first() in place of res.one(): the first of several rows is taken
get_room_members_first(members, room_id) ==
    LET rows == {m \in members : m.room_id = room_id}
    IN  IF Cardinality(rows) = 0 THEN NoMembers
        ELSE [err |-> "None", member_list |-> (CHOOSE m \in rows : TRUE).member_list]

\* get_room_members: res.one() on SELECT member_list FROM room_member
get_room_members(members, room_id) ==
    LET rows == {m \in members : m.room_id = room_id}
    IN  IF Cardinality(rows) = 0 THEN NoMembers
        ELSE IF Cardinality(rows) > 1 THEN ManyMembers
        ELSE [err |-> "None", member_list |-> (CHOOSE m \in rows : TRUE).member_list]

\* <= in place of < in the capacity test
check_room_status_le(r) ==
    IF r.err = "NoResultFound" THEN "Disbanded"
    ELSE IF r.err = "MultipleResultsFound" THEN "OtherError"
    ELSE IF r.joined_user_count <= r.max_user_count THEN "Ok"
    ELSE "RoomFull"

\* the two error branches swapped
check_room_status_swapped(r) ==
    IF r.err = "NoResultFound" THEN "OtherError"
    ELSE IF r.err = "MultipleResultsFound" THEN "Disbanded"
    ELSE IF r.joined_user_count < r.max_user_count THEN "Ok"
    ELSE "RoomFull"

\* the capacity test skipped on full rooms whose count is the maximum
check_room_status_full_ok(r) ==
    IF r.err = "NoResultFound" THEN "Disbanded"
    ELSE IF r.err = "MultipleResultsFound" THEN "OtherError"
    ELSE "Ok"

check_room_status(r) ==
    IF r.err = "NoResultFound" THEN "Disbanded"
    ELSE IF r.err = "MultipleResultsFound" THEN "OtherError"
    ELSE IF r.joined_user_count < r.max_user_count THEN "Ok"
    ELSE "RoomFull"

\* insert(0, ...) in place of append
PrependMember(member_list, user_id) ==
    Join(",", <<Str(user_id)>> \o Split(member_list, ","))

\* join_room lines 223-225: split, append str(user.id), join
AppendMember(member_list, user_id) ==
    Join(",", Append(Split(member_list, ","), Str(user_id)))

\* join_room line 228: the count written is the count read at line 215 plus one
NextCount(r) == r.joined_user_count + 1

(* ------------------ the writes of a transaction ------------------------ *)
\* A write is [op, room_id, a, b].
W(op, room_id, a, b) == [op |-> op, room_id |-> room_id, a |-> a, b |-> b]

\* UPDATE room SET joined_user_count=:count WHERE room_id=:room_id
update_room_count(rooms, room_id, count) ==
    { IF r.room_id = room_id THEN [r EXCEPT !.joined_user_count = count] ELSE r
      : r \in rooms }

\* UPDATE room_member SET member_list=:member_list, without the WHERE
update_room_member_all(members, room_id, member_list) ==
    { [m EXCEPT !.member_list = member_list] : m \in members }

\* UPDATE room_member SET member_list=:member_list WHERE room_id=:room_id
update_room_member(members, room_id, member_list) ==
    { IF m.room_id = room_id THEN [m EXCEPT !.member_list = member_list] ELSE m
      : m \in members }

\* INSERT INTO room_member (room_id, member_list): member_list = ",".join([str(user_id)])
insert_room_member(members, room_id, user_id) ==
    members \cup {[room_id |-> room_id, member_list |-> Join(",", <<Str(user_id)>>)]}

\* INSERT INTO room_user (user_id, room_id, select_difficulty)
insert_room_user(rows, user_id, room_id, select_difficulty) ==
    rows (+) SetToBag({[user_id |-> user_id, room_id |-> room_id,
                        select_difficulty |-> select_difficulty]})

\* INSERT INTO room (live_id): the other columns take their defaults
insert_room(rooms, room_id, live_id) ==
    rooms \cup {[room_id |-> room_id, live_id |-> live_id,
                 joined_user_count |-> DefaultJoinedUserCount,
                 max_user_count |-> DefaultMaxUserCount]}

RECURSIVE CommitRoom(_, _)
CommitRoom(rooms, log) ==
    IF Len(log) = 0 THEN rooms
    ELSE LET w == Head(log)
             next == IF w.op = "insert_room" THEN insert_room(rooms, w.room_id, w.a)
                     ELSE IF w.op = "update_room_count"
                          THEN update_room_count(rooms, w.room_id, w.a)
                     ELSE rooms
         IN  CommitRoom(next, Tail(log))

RECURSIVE CommitRoomMember(_, _)
CommitRoomMember(members, log) ==
    IF Len(log) = 0 THEN members
    ELSE LET w == Head(log)
             next == IF w.op = "insert_room_member"
                          THEN insert_room_member(members, w.room_id, w.a)
                     ELSE IF w.op = "update_room_member"
                          THEN update_room_member(members, w.room_id, w.a)
                     ELSE members
         IN  CommitRoomMember(next, Tail(log))

RECURSIVE CommitRoomUser(_, _)
CommitRoomUser(rows, log) ==
    IF Len(log) = 0 THEN rows
    ELSE LET w == Head(log)
             next == IF w.op = "insert_room_user"
                          THEN insert_room_user(rows, w.a, w.room_id, w.b)
                     ELSE rows
         IN  CommitRoomUser(next, Tail(log))

\* the lock on the rows of `table` with this room_id is free or p's own
CanLock(p, table, room_id) ==
    \A l \in row_lock : (l[1] = table /\ l[2] = room_id) => l[3] = p

\* the locks of p outlive its transaction
UnlockNothing(p) == row_lock

\* the end of p's transaction releases its row locks
Unlock(p) == {l \in row_lock : l[3] # p}

(* ------------------------------- Init ---------------------------------- *)
\* The writes of one join_room that passed its checks (model.py 223-228).
JoinWrites(r, room_members, user_id, room_id, select_difficulty) ==
    << W("update_room_member", room_id, AppendMember(room_members.member_list, user_id), 0),
       W("insert_room_user", room_id, user_id, select_difficulty),
       W("update_room_count", room_id, NextCount(r), 0) >>

\* The writes of one create_room (model.py 182-187).
CreateWrites(user_id, room_id, live_id) ==
    << W("insert_room", room_id, live_id, 0),
       W("insert_room_member", room_id, user_id, 0) >>

EmptyStore ==
    [room |-> {}, room_member |-> {}, room_user |-> EmptyBag, joins |-> 0, joiners |-> {}]

Commit(s, log) ==
    [s EXCEPT !.room = CommitRoom(s.room, log),
              !.room_member = CommitRoomMember(s.room_member, log),
              !.room_user = CommitRoomUser(s.room_user, log)]

\* one join_room(token of user_id, room 1, select_difficulty) run alone on store s
JoinAlone(s, user_id, select_difficulty) ==
    LET r == get_room(s.room, 1)
        room_members == get_room_members(s.room_member, 1)
    IN  IF check_room_status(r) = "Ok" /\ room_members.err = "None"
        THEN [Commit(s, JoinWrites(r, room_members, user_id, 1, select_difficulty))
                EXCEPT !.joins = @ + 1, !.joiners = @ \cup {user_id}]
        ELSE s

RECURSIVE History(_)
\* The store after n calls made one after the other on the empty store:
\* create_room by user 1 (which draws room id 1), then join_room on room 1 by
\* users 12, 1, 12, ... with difficulties 2, 1, 2, ...
History(n) ==
    IF n = 0 THEN EmptyStore
    ELSE IF n = 1 THEN Commit(EmptyStore, CreateWrites(1, 1, 10))
    ELSE JoinAlone(History(n - 1), IF n % 2 = 0 THEN 12 ELSE 1, IF n % 2 = 0 THEN 2 ELSE 1)

\* The server has served 0 .. DefaultMaxUserCount + 1 such calls and is idle.
Init ==
    \E n \in 0..(DefaultMaxUserCount + 1) :
        /\ room = History(n).room
        /\ room_member = History(n).room_member
        /\ room_user = History(n).room_user
        /\ next_room_id = IF n = 0 THEN 1 ELSE 2
        /\ row_lock = {}
        /\ pc = [p \in Procs |-> "idle"]
        /\ frame = [p \in Procs |-> NoFrame]
        /\ tx = [p \in Procs |-> <<>>]
        /\ ret = [p \in Procs |-> NoRet]
        /\ overlap = [p \in Procs |-> {}]
        /\ free_read = [p \in Procs |-> 0]
        /\ joiner = [p \in Procs |-> 0]
        /\ ok_count = [r \in StoredRoomIds |-> IF r = 1 THEN History(n).joins ELSE 0]
        /\ ok_joiners = [r \in StoredRoomIds |-> IF r = 1 THEN History(n).joiners ELSE {}]
        /\ started = 0

(* ------------------------ request bookkeeping -------------------------- *)
InFlightJoin(q, room_id) ==
    /\ pc[q] # "idle"
    /\ frame[q].fn = "join_room"
    /\ frame[q].room_id = room_id

\* p starts a call that is no join_room: its latest join is over for the others
OverlapOnCall(p) == [q \in Procs |-> IF q = p THEN {} ELSE overlap[q] \ {p}]

\* p starts a join_room on room_id: it overlaps every join on that room in flight
OverlapOnJoin(p, room_id) ==
    LET others == {q \in Procs \ {p} : InFlightJoin(q, room_id)}
    IN  [q \in Procs |->
            IF q = p THEN others
            ELSE IF q \in others THEN overlap[q] \cup {p}
            ELSE overlap[q] \ {p}]

\* the call of p is over: its locals are gone, its response is r
Finish(p, r) ==
    /\ pc' = [pc EXCEPT ![p] = "idle"]
    /\ frame' = [frame EXCEPT ![p] = NoFrame]
    /\ ret' = [ret EXCEPT ![p] = r]

(* ----------------------------- join_room ------------------------------- *)
\* the three writes of the join_room call p runs, from its locals
JoinWritesOf(p) ==
    JoinWrites(frame[p].room, frame[p].room_members, frame[p].user.id,
               frame[p].room_id, frame[p].select_difficulty)

\* model.py 209-222: the call and its three SELECTs, all read from the
\* transaction's snapshot; every early exit leaves the transaction empty.
JoinBegin(p, token, room_id, select_difficulty) ==
    /\ pc[p] = "idle"
    /\ LET u == _get_user_by_token(token)
           r == get_room(room, room_id)
           room_status == check_room_status(r)
           room_members == get_room_members(room_member, room_id)
       IN  IF u = NoUser
           THEN /\ Finish(p, Raised("InvalidToken"))
                /\ overlap' = OverlapOnCall(p)
                /\ free_read' = [free_read EXCEPT ![p] = 0]
                /\ joiner' = [joiner EXCEPT ![p] = 0]
                /\ started' = started
           ELSE IF room_status # "Ok"
           THEN /\ Finish(p, ReturnedResult(room_status))
                /\ overlap' = OverlapOnJoin(p, room_id)
                /\ free_read' = [free_read EXCEPT ![p] = r.max_user_count - r.joined_user_count]
                /\ joiner' = [joiner EXCEPT ![p] = u.id]
                /\ started' = started
           ELSE IF room_members.err \in {"NoResultFound", "MultipleResultsFound"}
           THEN /\ Finish(p, ReturnedResult("OtherError"))
                /\ overlap' = OverlapOnJoin(p, room_id)
                /\ free_read' = [free_read EXCEPT ![p] = r.max_user_count - r.joined_user_count]
                /\ joiner' = [joiner EXCEPT ![p] = u.id]
                /\ started' = started
           ELSE /\ started < MaxJoins
                /\ started' = started + 1
                /\ pc' = [pc EXCEPT ![p] = "update_room_member"]
                /\ ret' = [ret EXCEPT ![p] = NoRet]
                /\ frame' = [frame EXCEPT ![p] =
                                [NoFrame EXCEPT !.fn = "join_room", !.room_id = room_id,
                                    !.select_difficulty = select_difficulty,
                                    !.user = u, !.room = r,
                                    !.room_members = room_members]]
                /\ overlap' = OverlapOnJoin(p, room_id)
                /\ free_read' = [free_read EXCEPT ![p] = r.max_user_count - r.joined_user_count]
                /\ joiner' = [joiner EXCEPT ![p] = u.id]
    /\ UNCHANGED <<db, next_room_id, row_lock, tx, ok_count, ok_joiners>>

\* model.py 223-226: the UPDATE waits for the row lock
JoinUpdateRoomMember(p) ==
    /\ pc[p] = "update_room_member"
    /\ CanLock(p, "room_member", frame[p].room_id)
    /\ row_lock' = row_lock \cup {<<"room_member", frame[p].room_id, p>>}
    /\ tx' = [tx EXCEPT ![p] = Append(@, JoinWritesOf(p)[1])]
    /\ pc' = [pc EXCEPT ![p] = "insert_room_user"]
    /\ UNCHANGED <<db, next_room_id, frame, ret, hist, started>>

\* model.py 227
JoinInsertRoomUser(p) ==
    /\ pc[p] = "insert_room_user"
    /\ tx' = [tx EXCEPT ![p] = Append(@, JoinWritesOf(p)[2])]
    /\ pc' = [pc EXCEPT ![p] = "update_room_count"]
    /\ UNCHANGED <<db, next_room_id, row_lock, frame, ret, hist, started>>

\* model.py 228
JoinUpdateRoomCount(p) ==
    /\ pc[p] = "update_room_count"
    /\ CanLock(p, "room", frame[p].room_id)
    /\ row_lock' = row_lock \cup {<<"room", frame[p].room_id, p>>}
    /\ tx' = [tx EXCEPT ![p] = Append(@, JoinWritesOf(p)[3])]
    /\ pc' = [pc EXCEPT ![p] = "join_commit"]
    /\ UNCHANGED <<db, next_room_id, frame, ret, hist, started>>

\* model.py 229 and the exit of the with block: return Ok, commit
JoinCommit(p) ==
    /\ pc[p] = "join_commit"
    /\ room' = CommitRoom(room, tx[p])
    /\ room_member' = CommitRoomMember(room_member, tx[p])
    /\ room_user' = CommitRoomUser(room_user, tx[p])
    /\ row_lock' = Unlock(p)
    /\ tx' = [tx EXCEPT ![p] = <<>>]
    /\ Finish(p, ReturnedResult("Ok"))
    /\ ok_count' = [ok_count EXCEPT ![frame[p].room_id] = @ + 1]
    /\ ok_joiners' = [ok_joiners EXCEPT ![frame[p].room_id] = @ \cup {frame[p].user.id}]
    /\ UNCHANGED <<next_room_id, overlap, free_read, joiner, started>>

(* ---------------------------- create_room ------------------------------ *)
\* ids the running create_room calls will still draw
PendingInserts == Cardinality({q \in Procs : pc[q] = "insert_room"})

\* model.py 176-181
CreateBegin(p, token, live_id) ==
    /\ pc[p] = "idle"
    /\ LET u == _get_user_by_token(token)
       IN  IF u = NoUser
           THEN /\ Finish(p, Raised("InvalidToken"))
           ELSE /\ next_room_id + PendingInserts <= MaxRooms
                /\ pc' = [pc EXCEPT ![p] = "insert_room"]
                /\ ret' = [ret EXCEPT ![p] = NoRet]
                /\ frame' = [frame EXCEPT ![p] =
                                [NoFrame EXCEPT !.fn = "create_room",
                                                !.live_id = live_id, !.user = u]]
    /\ overlap' = OverlapOnCall(p)
    /\ free_read' = [free_read EXCEPT ![p] = 0]
    /\ joiner' = [joiner EXCEPT ![p] = 0]
    /\ UNCHANGED <<db, next_room_id, row_lock, tx, ok_count, ok_joiners, started>>

\* the INSERT of the room run outside the transaction of the roster INSERT
CreateInsertRoomAutocommit(p) ==
    /\ pc[p] = "insert_room"
    /\ frame' = [frame EXCEPT ![p].lastrowid = next_room_id]
    /\ next_room_id' = next_room_id + 1
    /\ room' = insert_room(room, next_room_id, frame[p].live_id)
    /\ pc' = [pc EXCEPT ![p] = "insert_room_member"]
    /\ UNCHANGED <<room_member, room_user, tx, row_lock, ret, hist, started>>

\* model.py 182-186: the INSERT draws res.lastrowid from the counter
CreateInsertRoom(p) ==
    /\ pc[p] = "insert_room"
    /\ frame' = [frame EXCEPT ![p].lastrowid = next_room_id]
    /\ next_room_id' = next_room_id + 1
    /\ tx' = [tx EXCEPT ![p] = Append(@,
                CreateWrites(frame[p].user.id, next_room_id, frame[p].live_id)[1])]
    /\ pc' = [pc EXCEPT ![p] = "insert_room_member"]
    /\ UNCHANGED <<db, row_lock, ret, hist, started>>

\* model.py 187
CreateInsertRoomMember(p) ==
    /\ pc[p] = "insert_room_member"
    /\ tx' = [tx EXCEPT ![p] = Append(@,
                CreateWrites(frame[p].user.id, frame[p].lastrowid, frame[p].live_id)[2])]
    /\ pc' = [pc EXCEPT ![p] = "create_commit"]
    /\ UNCHANGED <<db, next_room_id, row_lock, frame, ret, hist, started>>

\* the exit of the with block and model.py 188
CreateCommit(p) ==
    /\ pc[p] = "create_commit"
    /\ room' = CommitRoom(room, tx[p])
    /\ room_member' = CommitRoomMember(room_member, tx[p])
    /\ room_user' = CommitRoomUser(room_user, tx[p])
    /\ row_lock' = Unlock(p)
    /\ tx' = [tx EXCEPT ![p] = <<>>]
    /\ Finish(p, Returned(frame[p].lastrowid))
    /\ UNCHANGED <<next_room_id, hist, started>>

(* --------------------------- POST /room/create ------------------------- *)
\* api.py 164-169 calls model.create_room(token, live_id, select_difficulty);
\* create_room takes (token, live_id), so the call raises TypeError before
\* the body of create_room runs.
create(p, token, live_id, select_difficulty) ==
    /\ pc[p] = "idle"
    /\ Finish(p, Raised("TypeError"))
    /\ overlap' = OverlapOnCall(p)
    /\ free_read' = [free_read EXCEPT ![p] = 0]
    /\ joiner' = [joiner EXCEPT ![p] = 0]
    /\ UNCHANGED <<db, next_room_id, row_lock, tx, ok_count, ok_joiners, started>>

Next ==
    \/ \E p \in Procs, token \in Tokens, room_id \in RoomIds, d \in LiveDifficulty :
          JoinBegin(p, token, room_id, d)
    \/ \E p \in Procs : JoinUpdateRoomMember(p)
    \/ \E p \in Procs : JoinInsertRoomUser(p)
    \/ \E p \in Procs : JoinUpdateRoomCount(p)
    \/ \E p \in Procs : JoinCommit(p)
    \/ \E p \in Procs, token \in Tokens, live_id \in LiveIds : CreateBegin(p, token, live_id)
    \/ \E p \in Procs : CreateInsertRoom(p)
    \/ \E p \in Procs : CreateInsertRoomMember(p)
    \/ \E p \in Procs : CreateCommit(p)
    \/ \E p \in Procs, token \in Tokens, live_id \in LiveIds, d \in LiveDifficulty :
          create(p, token, live_id, d)

Spec == Init /\ [][Next]_vars

(* ------------------------------ scheduling ----------------------------- *)
\* the next statement of the call worker p is running
Step(p) ==
    \/ JoinUpdateRoomMember(p)
    \/ JoinInsertRoomUser(p)
    \/ JoinUpdateRoomCount(p)
    \/ JoinCommit(p)
    \/ CreateInsertRoom(p)
    \/ CreateInsertRoomMember(p)
    \/ CreateCommit(p)

\* a worker thread that can run its next statement does so; a worker that
\* waits for a row lock gets it once it is free often enough (the store
\* grants a released lock to the waiting transaction)
Fairness == \A p \in Procs : SF_vars(Step(p))

FairSpec == Spec /\ Fairness

(* ------------------- a statement of join_room fails -------------------- *)
\* the statements run before the exception stay applied
RollbackKeepsWrites(log) == log

\* model.py 211: the exit of `with engine.begin()` on an exception rolls the
\* transaction back, which leaves none of its writes to apply
Rollback(log) == <<>>

\* a raise of the store's driver, with the number of statements undone
RaisedAfter(n) == [kind |-> "raise", value |-> n, result |-> "OperationalError"]

\* model.py 223-228: conn.execute of one of the three writes raises (lock
\* wait timeout, lost connection); nothing catches it inside join_room, so
\* the with block rolls back and the exception leaves the call
JoinRaise(p) ==
    /\ pc[p] \in {"update_room_member", "insert_room_user", "update_room_count"}
    /\ room' = CommitRoom(room, Rollback(tx[p]))
    /\ room_member' = CommitRoomMember(room_member, Rollback(tx[p]))
    /\ room_user' = CommitRoomUser(room_user, Rollback(tx[p]))
    /\ row_lock' = Unlock(p)
    /\ tx' = [tx EXCEPT ![p] = <<>>]
    /\ Finish(p, RaisedAfter(Len(tx[p])))
    /\ UNCHANGED <<next_room_id, hist, started>>

NextFail ==
    \/ Next
    \/ \E p \in Procs : JoinRaise(p)

SpecFail == Init /\ [][NextFail]_vars

(* --------------------------- two rooms at once ------------------------- *)
\* The server has served create_room by user 1 (room 1, song 10), up to
\* DefaultMaxUserCount join_room calls on room 1 and then create_room by
\* user 12 (room 2, song 20), one after the other, and is idle.
InitRooms ==
    \E n \in 1..(DefaultMaxUserCount + 1) :
        LET s == Commit(History(n), CreateWrites(12, 2, 20))
        IN  /\ room = s.room
            /\ room_member = s.room_member
            /\ room_user = s.room_user
            /\ next_room_id = 3
            /\ row_lock = {}
            /\ pc = [p \in Procs |-> "idle"]
            /\ frame = [p \in Procs |-> NoFrame]
            /\ tx = [p \in Procs |-> <<>>]
            /\ ret = [p \in Procs |-> NoRet]
            /\ overlap = [p \in Procs |-> {}]
            /\ free_read = [p \in Procs |-> 0]
            /\ joiner = [p \in Procs |-> 0]
            /\ ok_count = [r \in StoredRoomIds |-> IF r = 1 THEN s.joins ELSE 0]
            /\ ok_joiners = [r \in StoredRoomIds |-> IF r = 1 THEN s.joiners ELSE {}]
            /\ started = 0

\* join_room calls on either room
NextRooms ==
    \/ \E p \in Procs, token \in Tokens, room_id \in StoredRoomIds, d \in LiveDifficulty :
          JoinBegin(p, token, room_id, d)
    \/ \E p \in Procs : JoinUpdateRoomMember(p)
    \/ \E p \in Procs : JoinInsertRoomUser(p)
    \/ \E p \in Procs : JoinUpdateRoomCount(p)
    \/ \E p \in Procs : JoinCommit(p)

SpecRooms == InitRooms /\ [][NextRooms]_vars

(* ------------------- join_room on any store contents ------------------- *)
\* rows the tables may hold for room 1: with a free slot or full, and with
\* one member or two
RoomRowsAny ==
    {[room_id |-> 1, live_id |-> 10, joined_user_count |-> c,
      max_user_count |-> DefaultMaxUserCount] : c \in {DefaultJoinedUserCount, DefaultMaxUserCount}}
MemberRowsAny ==
    {[room_id |-> 1, member_list |-> Join(",", <<Str(1)>>)],
     [room_id |-> 1, member_list |-> Join(",", <<Str(1), Str(12)>>)]}

\* join_room reads whatever rows the tables hold (model.py 92-121 handle no
\* row and several rows): every choice of rows, all workers idle
InitStores ==
    /\ room \in SUBSET RoomRowsAny
    /\ room_member \in SUBSET MemberRowsAny
    /\ room_user = EmptyBag
    /\ next_room_id = 2
    /\ row_lock = {}
    /\ pc = [p \in Procs |-> "idle"]
    /\ frame = [p \in Procs |-> NoFrame]
    /\ tx = [p \in Procs |-> <<>>]
    /\ ret = [p \in Procs |-> NoRet]
    /\ overlap = [p \in Procs |-> {}]
    /\ free_read = [p \in Procs |-> 0]
    /\ joiner = [p \in Procs |-> 0]
    /\ ok_count = [r \in StoredRoomIds |-> 0]
    /\ ok_joiners = [r \in StoredRoomIds |-> {}]
    /\ started = 0

SpecStores == InitStores /\ [][NextRooms]_vars

(* ------------------------- the other endpoints ------------------------- *)
Scores == {0, 100}
JudgeCountLists == {<<0, 0, 0, 0, 0>>, <<3, 1, 0, 0, 1>>}

\* a call that answers in one step and writes nothing
Answer(p, r) ==
    /\ pc[p] = "idle"
    /\ Finish(p, r)
    /\ overlap' = OverlapOnCall(p)
    /\ free_read' = [free_read EXCEPT ![p] = 0]
    /\ joiner' = [joiner EXCEPT ![p] = 0]
    /\ UNCHANGED <<db, next_room_id, row_lock, tx, ok_count, ok_joiners, started>>

\* model.py 198-201: SELECT room_id, joined_user_count, max_user_count
\* FROM room WHERE live_id = :live_id
RoomInfoRows(rooms, live_id) ==
    {[room_id |-> x.room_id, joined_user_count |-> x.joined_user_count,
      max_user_count |-> x.max_user_count] : x \in {y \in rooms : y.live_id = live_id}}

\* a returned row list, kept as its length
ReturnedRows(rows) == [kind |-> "return", value |-> Cardinality(rows), result |-> "rows"]

\* model.py 191-206: one SELECT in its own transaction; res.all() is the
\* empty list when no row matches
list_room(p, token, live_id) ==
    IF _get_user_by_token(token) = NoUser
    THEN Answer(p, Raised("InvalidToken"))
    ELSE Answer(p, ReturnedRows(RoomInfoRows(room, live_id)))

\* api.py 172-185 calls model.list_room(req.live_id); list_room takes
\* (token, live_id), so the call raises TypeError.
select(p, live_id) == Answer(p, Raised("TypeError"))

\* api.py 211-215 calls model.start_room, which model.py does not define
start(p, token, room_id) == Answer(p, Raised("AttributeError"))

\* api.py 225-229 calls model.end_room, which model.py does not define
end(p, token, room_id, judge_count_list, score) == Answer(p, Raised("AttributeError"))

\* api.py 232-242 calls model.result_room, which model.py does not define
result(p, token, room_id) == Answer(p, Raised("AttributeError"))

NextApi ==
    \/ Next
    \/ \E p \in Procs, token \in Tokens, live_id \in LiveIds : list_room(p, token, live_id)
    \/ \E p \in Procs, live_id \in LiveIds : select(p, live_id)
    \/ \E p \in Procs, token \in Tokens, room_id \in RoomIds : start(p, token, room_id)
    \/ \E p \in Procs, token \in Tokens, room_id \in RoomIds,
          judge_count_list \in JudgeCountLists, score \in Scores :
          end(p, token, room_id, judge_count_list, score)
    \/ \E p \in Procs, token \in Tokens, room_id \in RoomIds : result(p, token, room_id)

SpecApi == Init /\ [][NextApi]_vars


(* ======================= properties of the code ======================== *)
Range(f) == {f[i] : i \in DOMAIN f}

\* the committed row of room r (r has exactly one) and its roster
RoomRow(r) == CHOOSE x \in room : x.room_id = r
Exists(r) == Cardinality({x \in room : x.room_id = r}) = 1
MemberList(r) == (CHOOSE m \in room_member : m.room_id = r).member_list
Roster(r) == Split(MemberList(r), ",")
Quiescent == \A p \in Procs : pc[p] = "idle"
ValidToken(token) == Cardinality({u \in user : u.token = token}) = 1
ValidTokens == {token \in Tokens : ValidToken(token)}
UserOf(token) == (CHOOSE u \in user : u.token = token).id
JoinFinished(p) == pc[p] = "idle" /\ ret[p].kind = "return" /\ ret[p].result \in JoinRoomResult

\* C1: when join_room calls of distinct users run concurrently on a room with
\* exactly one free slot, exactly one of them returns Ok and every other one
\* returns RoomFull (never two Ok).
C1_ExactlyOneOk ==
    \A p \in Procs, q \in Procs :
        ( /\ p # q
          /\ JoinFinished(p) /\ JoinFinished(q)
          /\ q \in overlap[p] /\ p \in overlap[q]
          /\ joiner[p] # joiner[q]
          /\ free_read[p] = 1 /\ free_read[q] = 1 )
        => \/ ret[p].result = "Ok" /\ ret[q].result = "RoomFull"
           \/ ret[p].result = "RoomFull" /\ ret[q].result = "Ok"

\* C2: in every committed state every room has
\* 0 <= joined_user_count <= max_user_count.
C2_CountWithinCapacity ==
    \A x \in room : 0 <= x.joined_user_count /\ x.joined_user_count <= x.max_user_count

\* a full room that more join_room calls entered than it had free slots
C2_Witness ==
    \E x \in room :
        /\ x.joined_user_count = x.max_user_count
        /\ ok_count[x.room_id] > x.max_user_count - DefaultJoinedUserCount

\* C3: in every committed state joined_user_count of a room equals the number
\* of user ids in its member_list roster.
C3_CountEqualsRoster ==
    \A x \in room : x.joined_user_count = Len(Roster(x.room_id))

\* C4: no update of the occupancy count is lost: once every call has
\* committed, joined_user_count is the count create_room committed plus the
\* number of join_room calls that returned Ok.
C4_NoLostCount ==
    Quiescent =>
        \A x \in room : x.joined_user_count = DefaultJoinedUserCount + ok_count[x.room_id]

\* C5: no join is dropped: the user id of every join_room that returned Ok
\* stays in the committed roster of the room.
C5_NoDroppedJoin ==
    \A r \in RoomIds : \A u \in ok_joiners[r] : Str(u) \in Range(Roster(r))

\* C6: join_room by a valid user on an existing room whose joined_user_count
\* has reached max_user_count returns RoomFull and writes nothing.
C6_RoomFullNoMutation ==
    [][ \A r \in RoomIds :
          (Exists(r) /\ RoomRow(r).joined_user_count >= RoomRow(r).max_user_count)
          => \A p \in Procs :
               pc[p] = "idle"
               => \A token \in ValidTokens, d \in LiveDifficulty :
                    JoinBegin(p, token, r, d)
                    => /\ pc'[p] = "idle"
                       /\ ret'[p] = ReturnedResult("RoomFull")
                       /\ tx'[p] = <<>>
                       /\ UNCHANGED <<room, room_member, room_user, row_lock>> ]_vars

\* a join_room on the full room returned RoomFull and the room is still full
C6_Witness ==
    \E p \in Procs :
        /\ JoinFinished(p) /\ ret[p].result = "RoomFull" /\ free_read[p] = 0
        /\ Exists(1) /\ RoomRow(1).joined_user_count = RoomRow(1).max_user_count

\* C7: join_room by a valid user on a room_id that has no room record returns
\* Disbanded and changes nothing in the store.
C7_MissingRoomDisbanded ==
    [][ \A r \in RoomIds :
          ({x \in room : x.room_id = r} = {})
          => \A p \in Procs :
               pc[p] = "idle"
               => \A token \in ValidTokens, d \in LiveDifficulty :
                    JoinBegin(p, token, r, d)
                    => /\ pc'[p] = "idle"
                       /\ ret'[p] = ReturnedResult("Disbanded")
                       /\ tx'[p] = <<>>
                       /\ UNCHANGED <<room, room_member, room_user, row_lock,
                                      next_room_id>> ]_vars

\* a join_room returned Disbanded and the store has no room
C7_Witness ==
    \E p \in Procs : JoinFinished(p) /\ ret[p].result = "Disbanded" /\ room = {}

\* C8: create_room by a valid user commits a new room with occupancy count 1
\* and exactly one membership, the caller as host with the difficulty the
\* caller selected, and returns the id of that room.
C8_CreateCommitsHostRoom ==
    [][ /\ \A p \in Procs, token \in Tokens, l \in LiveIds, d \in LiveDifficulty :
             (create(p, token, l, d) /\ ValidToken(token))
             => /\ ret'[p].kind = "return"
                /\ \E x \in room' \ room :
                      /\ ret'[p].value = x.room_id
                      /\ x.joined_user_count = 1
                      /\ \E m \in room_member' :
                            /\ m.room_id = x.room_id
                            /\ Split(m.member_list, ",") = <<Str(UserOf(token))>>
                      /\ BagIn([user_id |-> UserOf(token), room_id |-> x.room_id,
                                select_difficulty |-> d], room_user')
        /\ \A p \in Procs :
             CreateCommit(p)
             => /\ ret'[p].kind = "return"
                /\ \E x \in room' \ room :
                      /\ ret'[p].value = x.room_id
                      /\ x.joined_user_count = 1
                      /\ \E m \in room_member' :
                            /\ m.room_id = x.room_id
                            /\ Split(m.member_list, ",") = <<Str(frame[p].user.id)>>
                      /\ \E row \in BagToSet(room_user') :
                            row.user_id = frame[p].user.id /\ row.room_id = x.room_id ]_vars

\* C9: join_room by a valid user on a room with a free slot whose records no
\* other call changes while it runs returns Ok, appends the caller's id at
\* the end of the roster and keeps the entries before it, records the
\* caller's difficulty and raises joined_user_count by exactly 1.
C9_JoinAloneAppends ==
    [][ \A p \in Procs :
          ( /\ JoinCommit(p)
            /\ get_room(room, frame[p].room_id) = frame[p].room
            /\ get_room_members(room_member, frame[p].room_id) = frame[p].room_members )
          => LET r == frame[p].room_id
                 before == Split(MemberList(r), ",")
                 after == Split((CHOOSE m \in room_member' : m.room_id = r).member_list, ",")
                 x == CHOOSE x \in room' : x.room_id = r
                 row == [user_id |-> frame[p].user.id, room_id |-> r,
                         select_difficulty |-> frame[p].select_difficulty]
             IN  /\ ret'[p] = ReturnedResult("Ok")
                 /\ after = Append(before, Str(frame[p].user.id))
                 /\ x.joined_user_count = RoomRow(r).joined_user_count + 1
                 /\ room_user' = room_user (+) SetToBag({row})
                 /\ CopiesIn(row, room_user') = CopiesIn(row, room_user) + 1 ]_vars

\* the only join_room begun since the server was idle returned Ok
C9_Witness ==
    \E p \in Procs :
        /\ JoinFinished(p) /\ ret[p].result = "Ok" /\ started = 1
        /\ Exists(1) /\ Len(Roster(1)) >= 2

\* C10: create_room and join_room with a token that resolves to no user or to
\* more than one user raise InvalidToken and write nothing.
C10_InvalidTokenNoWrite ==
    [][ \A p \in Procs :
          pc[p] = "idle"
          => \A token \in Tokens \ ValidTokens :
               ( \/ \E r \in RoomIds, d \in LiveDifficulty : JoinBegin(p, token, r, d)
                 \/ \E l \in LiveIds : CreateBegin(p, token, l) )
               => /\ pc'[p] = "idle"
                  /\ ret'[p] = Raised("InvalidToken")
                  /\ tx'[p] = <<>>
                  /\ UNCHANGED <<room, room_member, room_user, row_lock,
                                 next_room_id>> ]_vars

\* two calls raised InvalidToken and the store is as the calls found it
C10_Witness ==
    \E p \in Procs, q \in Procs :
        /\ p # q
        /\ pc[p] = "idle" /\ ret[p] = Raised("InvalidToken")
        /\ pc[q] = "idle" /\ ret[q] = Raised("InvalidToken")

\* the number of room_user rows of room r
RoomUserRows(r) ==
    LET rows == {e \in BagToSet(room_user) : e.room_id = r}
    IN  BagCardinality([e \in rows |-> CopiesIn(e, room_user)])

\* C11: in every committed state the member roster of every room holds no
\* user id twice, also after a user joins the same room again and after the
\* creator joins their own room.
C11_NoDuplicateMember ==
    \A x \in room :
        \A i \in 1..Len(Roster(x.room_id)), j \in 1..Len(Roster(x.room_id)) :
            i # j => Roster(x.room_id)[i] # Roster(x.room_id)[j]

\* C19: every room create_room committed has exactly one room record and
\* exactly one roster record in every committed state, and no join_room
\* returns OtherError, whatever create_room and join_room calls run
\* concurrently.
C19_OneRosterPerRoom ==
    /\ \A x \in room :
          /\ Cardinality({y \in room : y.room_id = x.room_id}) = 1
          /\ Cardinality({m \in room_member : m.room_id = x.room_id}) = 1
    /\ \A m \in room_member : \E x \in room : x.room_id = m.room_id
    /\ \A p \in Procs : ret[p].result # "OtherError"

\* a create_room has inserted its room and roster and not committed yet, and
\* a join_room on that room id, run meanwhile, returned Disbanded
C19_Witness ==
    \E p \in Procs, q \in Procs :
        /\ pc[p] = "create_commit"
        /\ JoinFinished(q) /\ ret[q].result = "Disbanded" /\ joiner[q] # 0
        /\ room = {}

\* C20: in every committed state the number of room_user rows of a room
\* equals the number of roster entries after the creator's.
C20_RowsMatchRoster ==
    \A x \in room : RoomUserRows(x.room_id) = Len(Roster(x.room_id)) - 1

\* C12: POST /room/list for a song id returns exactly the rooms of that song
\* (the store has no phase column: every stored room is open), an empty
\* sequence when there is none, and changes nothing in the store.
C12_ListReturnsRoomsOfSong ==
    [][ \A p \in Procs :
          pc[p] = "idle"
          => \A live_id \in LiveIds :
               select(p, live_id)
               => /\ ret'[p] = ReturnedRows({x \in room : x.live_id = live_id})
                  /\ UNCHANGED db ]_vars

\* C13: POST /room/start on an existing room by a valid user returns normally
\* and leaves the room in a state where join_room no longer admits anyone.
C13_StartClosesRoom ==
    [][ \A p \in Procs :
          pc[p] = "idle"
          => \A token \in ValidTokens, r \in RoomIds :
               (Exists(r) /\ start(p, token, r))
               => /\ ret'[p].kind = "return"
                  /\ check_room_status(get_room(room', r)) # "Ok" ]_vars

\* C14: POST /room/end by a valid user on an existing room returns normally,
\* and POST /room/result returns the empty sequence as long as some member has
\* not ended (no end call has completed in any state this model reaches).
C14_ResultEmptyUntilAllEnded ==
    [][ \A p \in Procs :
          pc[p] = "idle"
          => \A token \in ValidTokens, r \in RoomIds :
               Exists(r)
               => /\ \A jl \in JudgeCountLists, score \in Scores :
                        end(p, token, r, jl, score) => ret'[p].kind = "return"
                  /\ result(p, token, r) => ret'[p] = ReturnedRows({}) ]_vars

\* C15: the three writes of a join_room call are all or nothing: the committed
\* store changes only in the step that ends a call, a join_room that returns
\* Ok installs its roster, its room_user row and its count in that one step,
\* and a join_room that leaves with an exception after some of its writes
\* changes nothing.
C15_JoinWritesAllOrNothing ==
    [][ /\ (db' # db) => \E p \in Procs :
                            pc[p] \in {"join_commit", "create_commit"} /\ pc'[p] = "idle"
        /\ \A p \in Procs :
             (frame[p].fn = "join_room" /\ pc'[p] = "idle")
             => \/ /\ ret'[p] = ReturnedResult("Ok")
                   /\ room' = update_room_count(room, frame[p].room_id,
                                                frame[p].room.joined_user_count + 1)
                   /\ room_member' = update_room_member(room_member, frame[p].room_id,
                          AppendMember(frame[p].room_members.member_list, frame[p].user.id))
                   /\ room_user' = insert_room_user(room_user, frame[p].user.id,
                                        frame[p].room_id, frame[p].select_difficulty)
                \/ /\ ret'[p].kind = "raise"
                   /\ UNCHANGED db ]_vars

\* a join_room left with an exception after two of its three writes
C15_Witness ==
    \E p \in Procs : pc[p] = "idle" /\ ret[p] = RaisedAfter(2)

\* C16: under fair scheduling every create_room and join_room call that has
\* begun eventually returns or raises; no call waits for a row lock forever.
C16_CallsTerminate ==
    \A p \in Procs : (pc[p] # "idle") ~> (pc[p] = "idle")

\* two join_room calls on one room, one holding the roster's row lock and the
\* other waiting for it
C16_Witness ==
    \E p \in Procs, q \in Procs :
        /\ pc[p] = "update_room_member" /\ ~CanLock(p, "room_member", frame[p].room_id)
        /\ pc[q] = "update_room_count" /\ frame[q].room_id = frame[p].room_id

\* the committed records of room r in the three tables
RoomRecords(r) ==
    <<{x \in room : x.room_id = r},
      {m \in room_member : m.room_id = r},
      [e \in {e \in BagToSet(room_user) : e.room_id = r} |-> CopiesIn(e, room_user)]>>

\* C17: a join_room call changes the records of no room but its own; what it
\* returns, or the snapshot it goes on with, is decided by the caller's token
\* and the records of its own room alone; and when no call on the same room
\* ran meanwhile it commits what it would commit alone, whatever join_room
\* calls run on other rooms.
C17_JoinTouchesOwnRoomOnly ==
    [][ /\ (db' # db)
           => \A r \in StoredRoomIds :
                (RoomRecords(r)' # RoomRecords(r))
                => \E p \in Procs : /\ pc[p] = "join_commit" /\ pc'[p] = "idle"
                                    /\ frame[p].room_id = r
        /\ \A p \in Procs :
             (pc[p] = "idle" /\ tx' = tx)
             => \A token \in Tokens, r \in StoredRoomIds :
                  (/\ joiner'[p] = _get_user_by_token(token).id
                   /\ pc'[p] = "idle" \/ frame'[p].room_id = r
                   /\ \E d \in LiveDifficulty : JoinBegin(p, token, r, d))
                  => LET u == _get_user_by_token(token)
                         own == get_room(RoomRecords(r)[1], r)
                         members == get_room_members(RoomRecords(r)[2], r)
                     IN  IF u = NoUser THEN ret'[p] = Raised("InvalidToken")
                         ELSE IF check_room_status(own) # "Ok"
                              THEN ret'[p] = ReturnedResult(check_room_status(own))
                         ELSE IF members.err # "None"
                              THEN ret'[p] = ReturnedResult("OtherError")
                         ELSE /\ pc'[p] = "update_room_member"
                              /\ frame'[p].room = own
                              /\ frame'[p].room_members = members
        /\ \A p \in Procs :
             (/\ pc[p] = "join_commit" /\ pc'[p] = "idle"
              /\ frame[p].room = get_room(room, frame[p].room_id)
              /\ frame[p].room_members = get_room_members(room_member, frame[p].room_id))
             => /\ get_room(room', frame[p].room_id).joined_user_count
                     = get_room(room, frame[p].room_id).joined_user_count + 1
                /\ get_room_members(room_member', frame[p].room_id).member_list
                     = AppendMember(get_room_members(room_member, frame[p].room_id).member_list,
                                    frame[p].user.id)
                /\ ret'[p] = ReturnedResult("Ok") ]_vars

\* join_room calls on room 1 and on room 2 run at once, each with its three
\* writes done and its row locks held
C17_Witness ==
    \E p \in Procs, q \in Procs :
        /\ pc[p] = "join_commit" /\ frame[p].room_id = 1
        /\ pc[q] = "join_commit" /\ frame[q].room_id = 2

\* the store holds several room rows of id r, or one room row with a free
\* slot and no roster row or several roster rows
Anomalous(r) ==
    LET rows == {x \in room : x.room_id = r}
        members == {m \in room_member : m.room_id = r}
    IN  \/ Cardinality(rows) > 1
        \/ /\ Cardinality(rows) = 1
           /\ \A x \in rows : x.joined_user_count < x.max_user_count
           /\ Cardinality(members) # 1

\* C18: for a caller whose token resolves, join_room returns OtherError
\* exactly when the store is anomalous for the room, and then the call ends
\* at once with no write and no lock.
C18_OtherErrorIffAnomalous ==
    [][ \A p \in Procs :
          (pc[p] = "idle" /\ tx' = tx)
          => \A token \in ValidTokens, r \in StoredRoomIds :
               (/\ joiner'[p] = _get_user_by_token(token).id
                /\ \E d \in LiveDifficulty : JoinBegin(p, token, r, d))
               => /\ (ret'[p] = ReturnedResult("OtherError")) <=> Anomalous(r)
                  /\ Anomalous(r) => /\ pc'[p] = "idle"
                                     /\ UNCHANGED <<db, tx, row_lock>> ]_vars

\* join_room returned OtherError on a room with a free slot and no roster row
C18_Witness ==
    \E p \in Procs :
        /\ pc[p] = "idle" /\ ret[p] = ReturnedResult("OtherError")
        /\ Cardinality(room) = 1 /\ room_member = {}

====
